---- MODULE Spec2Model ----
(***************************************************************************)
(* Model of the currency exchange calculator                               *)
(* (client/src/lib/calculator.ts: calculateExchange).                      *)
(*                                                                         *)
(* Numbers.  The program computes with JavaScript numbers.  The model      *)
(* computes with exact decimals: a raw value is a pair <<w, f>> standing   *)
(* for w + f / FracBase with 0 <= f < FracBase (eight decimal places, the  *)
(* most a product "amount * rate * rate" of the modelled inputs needs).    *)
(* Amounts and fees are whole numbers, rates are given in units of         *)
(* 1 / RateScale (0.6545 is 6545).  Rounded monetary outputs are integers  *)
(* in cents (43590.94 is 4359094).                                         *)
(*                                                                         *)
(* Indexes.  The program's arrays start at 0, sequences here start at 1:   *)
(* index i of the program is index i + 1 of the model.                     *)
(***************************************************************************)
EXTENDS Integers, Sequences, FiniteSets

\* The factor of Math.round(x * 100) / 100: monetary outputs have 2 decimals.
Cents == 100

\* Rates carry four decimals (0.6545, 21.8085).
RateScale == Cents * Cents

\* Raw values carry eight decimals.
FracBase == RateScale * RateScale

\* Longest bank list the model enumerates.
MaxBanks == 3

----------------------------------------------------------------------------
\* Exact decimal arithmetic standing for the program's +, - and *.

Norm(w, f) == <<w + (f \div FracBase), f % FracBase>>

\* Number.NaN: an integer that no text of the model denotes.  As a value of
\* the arithmetic it is the pair <<NaN, 0>>; +, - and * of a NaN are NaN, and
\* every comparison with a NaN is false.
NaN == -(FracBase)

IsNaN(x) == x[1] = NaN

\* A whole number (an amount or a fee).
Num(n) == <<n, 0>>

\* A rate given in units of 1 / RateScale.
Rate(r) ==
    IF r = NaN THEN <<NaN, 0>>
    ELSE <<r \div RateScale, (r % RateScale) * RateScale>>

Add(x, y) ==
    IF IsNaN(x) \/ IsNaN(y) THEN <<NaN, 0>>
    ELSE Norm(x[1] + y[1], x[2] + y[2])

Sub(x, y) ==
    IF IsNaN(x) \/ IsNaN(y) THEN <<NaN, 0>>
    ELSE Norm(x[1] - y[1], x[2] - y[2])

\* x * y, exact whenever the decimals of x and of y together are at most
\* eight (every product of calculateExchange: a whole number or a
\* four-decimal value times a four-decimal rate).  The fraction is split in
\* two four-digit limbs so that no partial product leaves the integer range.
Mul(x, y) ==
    IF IsNaN(x) \/ IsNaN(y) THEN <<NaN, 0>> ELSE
    LET xw == x[1]
        xa == x[2] \div RateScale
        xb == x[2] % RateScale
        yw == y[1]
        ya == y[2] \div RateScale
        yb == y[2] % RateScale
        mid == xw * ya + xa * yw
        low == xw * yb + xb * yw + xa * ya
    IN  Norm(xw * yw + (mid \div RateScale), (mid % RateScale) * RateScale + low)

Neg(x) == Norm(-x[1], -x[2])

IsNegative(x) == x[1] < 0

\* Math.floor(x * 100) / 100, as a number of cents.
Floor2(x) ==
    x[1] * Cents + (x[2] \div (FracBase \div Cents))

\* Math.round(x * 100) / 100, as a number of cents.  Math.round returns the
\* nearest integer and, of two equally near, the larger: floor(v + 1/2).
Round2(x) ==
    IF IsNaN(x) THEN NaN
    ELSE x[1] * Cents + ((x[2] + (FracBase \div (2 * Cents))) \div (FracBase \div Cents))

\* Rounding to 2 decimals with halves away from zero, as a number of cents.
RoundHalfAwayFromZero(x) ==
    IF IsNegative(x) THEN -Round2(Neg(x)) ELSE Round2(x)

----------------------------------------------------------------------------
\* calculateExchange

\* bankComparisons.find(...) || null on a list with no match.
Null == [bankName |-> "null"]

\* Step 1 with the fee added instead of subtracted.
audNetAmountPlusFee(input) == Add(Num(input.audAmount), Num(input.audFeeNtd))

\* Step 1: net AUD amount.
audNetAmountOf(input) == Sub(Num(input.audAmount), Num(input.audFeeNtd))

\* Step 2: AUD to USD.
usdAmountGross(input) == Mul(Num(input.audAmount), Rate(input.audToUsdRate))

usdAmountOf(input) == Mul(audNetAmountOf(input), Rate(input.audToUsdRate))

\* Step 3 with the fee left in AUD.
usdFeeNtdUnconverted(input) == Num(input.audFeeNtd)

\* Step 3: USD fee.
usdFeeNtdOf(input) == Mul(Num(input.audFeeNtd), Rate(input.audToUsdRate))

\* Step 4 with nothing subtracted: the fee is deducted once, in step 1.
usdNetAmountFeeOnce(input) == usdAmountOf(input)

\* Step 4: net USD amount.
usdNetAmountOf(input) == Sub(usdAmountOf(input), usdFeeNtdOf(input))

\* The number that a count c of cents stands for.
FromCents(c) == <<c \div Cents, (c % Cents) * (FracBase \div Cents)>>

\* Step 5 with the net USD amount rounded to cents before it is converted.
usdToTwdAmountOfRounded(bank, usdNetAmount) ==
    Add(Mul(FromCents(Round2(usdNetAmount)), Rate(bank.usdToTwdRate)), Num(bank.inFeeNtd))

\* Step 5, the raw totals of one bank and their difference.
usdToTwdAmountOf(bank, usdNetAmount) ==
    Add(Mul(usdNetAmount, Rate(bank.usdToTwdRate)), Num(bank.inFeeNtd))

\* The direct-path total with the bank's fee left out.
audToTwdAmountWithoutFee(bank, audNetAmount) == Mul(audNetAmount, Rate(bank.audToTwdRate))

audToTwdAmountOf(bank, audNetAmount) ==
    Add(Mul(audNetAmount, Rate(bank.audToTwdRate)), Num(bank.inFeeNtd))

differenceReversed(bank, audNetAmount, usdNetAmount) ==
    Sub(audToTwdAmountOf(bank, audNetAmount), usdToTwdAmountOf(bank, usdNetAmount))

differenceOf(bank, audNetAmount, usdNetAmount) ==
    Sub(usdToTwdAmountOf(bank, usdNetAmount), audToTwdAmountOf(bank, audNetAmount))

\* Step 5: the callback of banks.map.
compareBank(bank, audNetAmount, usdNetAmount) ==
    [bankName |-> bank.name,
     usdToTwdRate |-> bank.usdToTwdRate,
     audToTwdRate |-> bank.audToTwdRate,
     inFeeNtd |-> bank.inFeeNtd,
     usdToTwdAmount |-> Round2(usdToTwdAmountOf(bank, usdNetAmount)),
     audToTwdAmount |-> Round2(audToTwdAmountOf(bank, audNetAmount)),
     difference |-> Round2(differenceOf(bank, audNetAmount, usdNetAmount)),
     isBest |-> FALSE,
     isWorst |-> FALSE]

\* banks.map(...) with every bank charged the fee of the first one.
mapBanksSharedFee(input, banks) ==
    [i \in 1..Len(banks) |->
        [compareBank([banks[i] EXCEPT !.inFeeNtd = banks[1].inFeeNtd],
                     audNetAmountOf(input), usdNetAmountOf(input))
            EXCEPT !.inFeeNtd = banks[i].inFeeNtd]]

\* banks.map(...) returning the entries in reverse order.
mapBanksReversed(input, banks) ==
    [i \in 1..Len(banks) |->
        compareBank(banks[Len(banks) + 1 - i], audNetAmountOf(input), usdNetAmountOf(input))]

\* banks.map(...): one entry per bank, in the order of the bank list.
mapBanks(input, banks) ==
    [i \in 1..Len(banks) |->
        compareBank(banks[i], audNetAmountOf(input), usdNetAmountOf(input))]

\* a > b and a < b of two rounded amounts.
Greater(a, b) == a # NaN /\ b # NaN /\ a > b

Less(a, b) == a # NaN /\ b # NaN /\ a < b

\* The loop "for (let i = 1; ...)" as far as bestIdx goes: i is the next
\* index to visit, bestIdx the running best.
RECURSIVE scanBestLast(_, _, _)
scanBestLast(cs, i, bestIdx) ==
    IF i > Len(cs) THEN bestIdx
    ELSE scanBestLast(cs, i + 1,
             IF cs[i].audToTwdAmount >= cs[bestIdx].audToTwdAmount THEN i ELSE bestIdx)

RECURSIVE scanBest(_, _, _)
scanBest(cs, i, bestIdx) ==
    IF i > Len(cs) THEN bestIdx
    ELSE scanBest(cs, i + 1,
             IF Greater(cs[i].audToTwdAmount, cs[bestIdx].audToTwdAmount) THEN i ELSE bestIdx)

\* The loop with the comparison for worstIdx written ">" as for bestIdx.
scanWorstGreater(cs, i, worstIdx) == scanBest(cs, i, worstIdx)

\* The same loop as far as worstIdx goes.
RECURSIVE scanWorstLast(_, _, _)
scanWorstLast(cs, i, worstIdx) ==
    IF i > Len(cs) THEN worstIdx
    ELSE scanWorstLast(cs, i + 1,
             IF cs[i].audToTwdAmount <= cs[worstIdx].audToTwdAmount THEN i ELSE worstIdx)

RECURSIVE scanWorst(_, _, _)
scanWorst(cs, i, worstIdx) ==
    IF i > Len(cs) THEN worstIdx
    ELSE scanWorst(cs, i + 1,
             IF Less(cs[i].audToTwdAmount, cs[worstIdx].audToTwdAmount) THEN i ELSE worstIdx)

\* "Find best and worst banks": the flags every entry of the maximum (of the
\* minimum) would get if the flags were set by value instead of by index.
flagBestWorstByValue(cs) ==
    [i \in 1..Len(cs) |->
        [cs[i] EXCEPT !.isBest = \A j \in 1..Len(cs) : cs[j].audToTwdAmount <= cs[i].audToTwdAmount,
                      !.isWorst = \A j \in 1..Len(cs) : cs[j].audToTwdAmount >= cs[i].audToTwdAmount]]

\* "Find best and worst banks": bestIdx and worstIdx start at the first
\* entry, the loop starts at the second, and the two entries found are
\* flagged in place; an empty list is left alone.
flagBestWorst(cs) ==
    IF Len(cs) > 0
    THEN LET bestIdx == scanBest(cs, 2, 1)
             worstIdx == scanWorst(cs, 2, 1)
         IN  [i \in 1..Len(cs) |->
                [cs[i] EXCEPT !.isBest = (i = bestIdx) \/ cs[i].isBest,
                              !.isWorst = (i = worstIdx) \/ cs[i].isWorst]]
    ELSE cs

\* bankComparisons.find((b) => b.isBest) || null
findBestOrFirst(cs) ==
    IF \E i \in 1..Len(cs) : cs[i].isBest
    THEN cs[CHOOSE i \in 1..Len(cs) : cs[i].isBest /\ \A j \in 1..(i - 1) : ~cs[j].isBest]
    ELSE compareBank([name |-> "", usdToTwdRate |-> 0, audToTwdRate |-> 0, inFeeNtd |-> 0],
                     Num(0), Num(0))

\* bankComparisons[0] || null
findBestFirstEntry(cs) ==
    IF cs # <<>> THEN cs[1] ELSE Null

findBest(cs) ==
    IF \E i \in 1..Len(cs) : cs[i].isBest
    THEN cs[CHOOSE i \in 1..Len(cs) : cs[i].isBest /\ \A j \in 1..(i - 1) : ~cs[j].isBest]
    ELSE Null

\* bankComparisons.find((b) => b.isWorst) || null
findWorst(cs) ==
    IF \E i \in 1..Len(cs) : cs[i].isWorst
    THEN cs[CHOOSE i \in 1..Len(cs) : cs[i].isWorst /\ \A j \in 1..(i - 1) : ~cs[j].isWorst]
    ELSE Null

calculateExchange(input, banks) ==
    LET bankComparisons == flagBestWorst(mapBanks(input, banks))
    IN  [audNetAmount |-> Round2(audNetAmountOf(input)),
         usdAmount |-> Round2(usdAmountOf(input)),
         usdFeeNtd |-> Round2(usdFeeNtdOf(input)),
         usdNetAmount |-> Round2(usdNetAmountOf(input)),
         bankComparisons |-> bankComparisons,
         bestBank |-> findBest(bankComparisons),
         worstBank |-> findWorst(bankComparisons)]

----------------------------------------------------------------------------
\* What a call does besides returning: the objects it writes to and the
\* property reads that can fail.  An object is named by where it comes from:
\* <<"input", 0>> is the input record, <<"bank", i>> the i-th element of the
\* bank list, <<"comparison", i>> the i-th object created by banks.map.

\* The callback of banks.map handing back the bank it was given.
comparisonObjectIsBank(i) == <<"bank", i>>

\* The callback of banks.map returns an object literal: a new object.
comparisonObject(i) == <<"comparison", i>>

\* bankComparisons[bestIdx].isBest = true; bankComparisons[worstIdx].isWorst
\* = true: the property writes of a call, cs being the mapped list.
flagWrites(cs) ==
    IF Len(cs) > 0
    THEN { [object |-> comparisonObject(scanBest(cs, 2, 1)), field |-> "isBest", value |-> TRUE],
           [object |-> comparisonObject(scanWorst(cs, 2, 1)), field |-> "isWorst", value |-> TRUE] }
    ELSE {}

\* The record held by object obj, whose fields were rec, after the writes ws.
AfterWrites(obj, rec, ws) ==
    LET mine == { w \in ws : w.object = obj }
        written == { w.field : w \in mine }
    IN  [f \in (DOMAIN rec) \cup written |->
            IF f \in written THEN (CHOOSE w \in mine : w.field = f).value ELSE rec[f]]

\* The elements of bankComparisons whose properties the loop and the two
\* flag assignments read or write, with the guard on the length left out.
indexesReadUnguarded(cs) ==
    (1..Len(cs)) \cup {scanBest(cs, 2, 1), scanWorst(cs, 2, 1)}

\* The elements of bankComparisons whose properties the loop and the two
\* flag assignments read or write, inside "if (bankComparisons.length > 0)".
indexesRead(cs) ==
    IF Len(cs) > 0
    THEN (1..Len(cs)) \cup {scanBest(cs, 2, 1), scanWorst(cs, 2, 1)}
    ELSE {}

\* A property access on an element the list does not have is a TypeError;
\* nothing else in calculateExchange can throw.
outcomeOf(cs) ==
    IF \E i \in indexesRead(cs) : i \notin 1..Len(cs) THEN "TypeError" ELSE "returned"

----------------------------------------------------------------------------
\* The inputs the model enumerates.

InFees == {0, 200}

\* name, usdToTwdRate, audToTwdRate
BankTerms ==
    { <<"A", 315530, 218830>>,
      <<"B", 10000, 11250>>,
      <<"C", 315400, 218830>> }

BankRates ==
    { [name |-> t[1], usdToTwdRate |-> t[2], audToTwdRate |-> t[3], inFeeNtd |-> f] :
        t \in BankTerms, f \in InFees }

\* The values the form starts with, and an amount below the fee with a rate
\* of one eighth, which puts a raw amount half way between two cents.
CalculationInputs ==
    { [audAmount |-> 2000, audFeeNtd |-> 8, audToUsdRate |-> 6545],
      [audAmount |-> 7, audFeeNtd |-> 8, audToUsdRate |-> 1250] }

BankLists == UNION { [1..n -> BankRates] : n \in 0..MaxBanks }

----------------------------------------------------------------------------
\* The page (Home): its state, the key-value store and the conversions of
\* text.
\*
\* Objects.  A bank list is an array of references to BankRate objects.  The
\* model keeps the objects in heap (a reference is an index of heap) and a
\* list as the sequence of its references; arrays themselves are never
\* written in place by the page, so they have no identity here.
\*
\* Text.  A text typed by the user is a sequence of characters; a bank name
\* is such a text.  The texts of the model have no decimal point, exponent
\* or blank, so parseFloat yields a whole number or NaN.  A rate field holds
\* its number in units of 1 / RateScale, as everywhere in this module.

\* JS null where a string or a record is expected.
NullString == "null"

STORAGE_KEY == "currencyCalculatorBanks"

TIMESTAMP_KEY == "currencyCalculatorTimestamp"

\* The objects of DEFAULT_BANKS as the module defines them.
DefaultBankValues ==
    << [name |-> <<"T", "S">>, usdToTwdRate |-> 315530, audToTwdRate |-> 218830, inFeeNtd |-> 200],
       [name |-> <<"B", "O", "T">>, usdToTwdRate |-> 315150, audToTwdRate |-> 218050, inFeeNtd |-> 200],
       [name |-> <<"S", "P">>, usdToTwdRate |-> 315630, audToTwdRate |-> 218085, inFeeNtd |-> 200],
       [name |-> <<"C", "U">>, usdToTwdRate |-> 315400, audToTwdRate |-> 218600, inFeeNtd |-> 200],
       [name |-> <<"F", "E">>, usdToTwdRate |-> 315400, audToTwdRate |-> 218050, inFeeNtd |-> 50] >>

\* DEFAULT_BANKS: the array of the references to those objects.
DEFAULT_BANKS == [i \in 1..Len(DefaultBankValues) |-> i]

\* useState<BankRate[]>([]) in place of useState<BankRate[]>(DEFAULT_BANKS).
initialBanksEmpty == <<>>

\* useState<BankRate[]>(DEFAULT_BANKS), of banks and of editingBanks.
initialBanks == DEFAULT_BANKS

\* The form's initial values: useState(2000), useState(8), useState(0.6545).
initialInput == [audAmount |-> 2000, audFeeNtd |-> 8, audToUsdRate |-> 6545]

\* The field values of the objects a list refers to.
Values(h, list) == [i \in 1..Len(list) |-> h[list[i]]]

NumericFields == {"usdToTwdRate", "audToTwdRate", "inFeeNtd"}

RateFields == {"usdToTwdRate", "audToTwdRate", "audToUsdRate"}

BankFields == {"name"} \cup NumericFields

\* A whole number in the unit of the field that holds it.
InUnitOf(field, n) ==
    IF n = NaN THEN NaN
    ELSE IF field \in RateFields THEN n * RateScale ELSE n

Digits == <<"0", "1", "2", "3", "4", "5", "6", "7", "8", "9">>

IsDigit(c) == \E d \in 1..Len(Digits) : Digits[d] = c

DigitValue(c) == (CHOOSE d \in 1..Len(Digits) : Digits[d] = c) - 1

\* The number of digits text starts with.
RECURSIVE LeadingDigits(_)
LeadingDigits(text) ==
    IF text = <<>> \/ ~IsDigit(Head(text)) THEN 0 ELSE 1 + LeadingDigits(Tail(text))

\* The number a sequence of digits denotes.
RECURSIVE DecimalValue(_)
DecimalValue(digits) ==
    IF digits = <<>> THEN 0
    ELSE 10 * DecimalValue(SubSeq(digits, 1, Len(digits) - 1)) + DigitValue(digits[Len(digits)])

\* parseFloat(text): the number denoted by the longest prefix of text that
\* is a number (a sign, then digits), NaN when there is none.
parseFloat(text) ==
    LET signed == text # <<>> /\ text[1] \in {"-", "+"}
        body == IF signed THEN Tail(text) ELSE text
        n == LeadingDigits(body)
        magnitude == DecimalValue(SubSeq(body, 1, n))
    IN  IF n = 0 THEN NaN
        ELSE IF signed /\ text[1] = "-" THEN -magnitude ELSE magnitude

\* v with the "|| 0" left out.
orZeroMissing(v) == v

\* v || 0, for a number v: NaN and 0 are falsy.
orZero(v) == IF v = NaN \/ v = 0 THEN 0 ELSE v

\* JSON.  A JSON text is modelled by its parse tree: a malformed text is
\* [json |-> "invalid"], the text of an array of bank objects lists, for
\* each object, its members as JSON values (<<"string", s>>, <<"number", n>>,
\* and <<"null">>, which is what JSON.stringify writes for NaN).

InvalidJson == [json |-> "invalid"]

JsonNumber(n) == IF n = NaN THEN <<"null">> ELSE <<"number", n>>

\* JSON.stringify(list, ["name", "usdToTwdRate", "audToTwdRate"]): the fee
\* is not written.
JSONstringifyWithoutFee(list) ==
    [json |-> "array",
     items |-> [i \in 1..Len(list) |->
                  [name |-> <<"string", list[i].name>>,
                   usdToTwdRate |-> JsonNumber(list[i].usdToTwdRate),
                   audToTwdRate |-> JsonNumber(list[i].audToTwdRate)]]]

\* String(list) where JSON.stringify(list) is meant: "[object Object],...",
\* which is not JSON.
StringOfList(list) == InvalidJson

\* JSON.stringify(list), list being the field values of an array of banks.
JSONstringify(list) ==
    [json |-> "array",
     items |-> [i \in 1..Len(list) |->
                  [name |-> <<"string", list[i].name>>,
                   usdToTwdRate |-> JsonNumber(list[i].usdToTwdRate),
                   audToTwdRate |-> JsonNumber(list[i].audToTwdRate),
                   inFeeNtd |-> JsonNumber(list[i].inFeeNtd)]]]

\* JSON.parse throws a SyntaxError on a malformed text.
ParseThrows(text) == text.json = "invalid"

\* The value of one JSON member: a string or a number as written; null for
\* null.
JsonMember(m) == IF m[1] = "null" THEN NullString ELSE m[2]

\* JSON.parse(text) for a well-formed text: the field values of the new
\* objects, in the order of the array.
JSONparse(text) ==
    [i \in 1..Len(text.items) |->
        [f \in DOMAIN text.items[i] |-> JsonMember(text.items[i][f])]]

\* localStorage: a function from the keys present to their texts.
getItemPresent(store, key) == key \in DOMAIN store

setItem(store, key, text) ==
    [k \in (DOMAIN store) \cup {key} |-> IF k = key THEN text ELSE store[k]]

removeItem(store, key) == [k \in (DOMAIN store) \ {key} |-> store[k]]

\* The texts the model lets the user type.
Texts == { <<>>, <<"x", "7">>, <<"7">>, <<"7", "x">> }

\* The results of toLocaleString the model lets the clock give.
TimeStrings == {"t1", "t2"}

\* The indexes of the rate editor's rows the model lets the user edit.
EditIndexes == {1, 2}

\* Most text entries (form fields and bank fields together) in a run.
MaxEdits == 1

\* Arrays.  The states banks and editingBanks hold arrays, and useMemo
\* compares its dependencies with Object.is, which for arrays is identity.
\* An array is named by a number: 0 is the array DEFAULT_BANKS, and a new
\* array takes the least number that neither state holds.
DefaultBanksArray == 0

newArray(held) == CHOOSE a \in 1..(Cardinality(held) + 1) : a \notin held

\* The dependency "input" of useMemo compared by the values of its fields.
inputDependencyByValue(prev, next) == prev # next

\* The dependency "input" of useMemo: every render builds the object anew
\* (const input = { ... }), and no object is another one.
inputDependencyChanged(prev, next) == TRUE

\* useMemo(() => calculateExchange(input, banks), [input, banks]) in the
\* render that follows a handler: memo is the value of the render before.
useMemo(memo, prevInput, nextInput, prevBanksArray, nextBanksArray, bankValues) ==
    IF inputDependencyChanged(prevInput, nextInput) \/ prevBanksArray # nextBanksArray
    THEN calculateExchange(nextInput, bankValues)
    ELSE memo

----------------------------------------------------------------------------
\* State: the arguments a caller holds, and the calls made so far (the
\* newest first, the two most recent ones kept), each with its arguments and
\* the result record returned.

VARIABLES input, banks, calls

\* The page: mounted is whether the effect of the first render has run; heap
\* holds the BankRate objects; banksState and editingBanks are the states
\* banks and editingBanks of Home (lists of references); localStorage is the
\* store.  The form's three states are the fields of input.  edits counts
\* the text entries (it bounds the run) and lastSaved remembers what the
\* last handleUpdateRates saved, <<>> when the store was not written by the
\* page or was reset since.  banksArray and editingArray name the arrays
\* that the states banks and editingBanks hold, and result is the value of
\* useMemo in the last render, which the page displays.
VARIABLES mounted, heap, banksState, editingBanks, lastUpdateTime,
          showRateEditor, localStorage, edits, lastSaved,
          banksArray, editingArray, result

pageVars == <<mounted, heap, banksState, editingBanks, lastUpdateTime,
              showRateEditor, localStorage, edits, lastSaved,
              banksArray, editingArray, result>>

\* The copy indicator: copiedIndex is the state of that name, <<>> for null
\* and <<i>> for the number i; timers lists the pending timeouts in the order
\* they were set, each by the number of the handleCopy call that set it;
\* clipboard is what the clipboard holds, <<>> at first.  copies counts the
\* calls of handleCopy (it bounds the run) and copiedBy is the number of the
\* call that set copiedIndex last, 0 at first.
VARIABLES copiedIndex, timers, clipboard, copies, copiedBy

copyVars == <<copiedIndex, timers, clipboard, copies, copiedBy>>

vars == <<input, banks, calls, pageVars, copyVars>>

\* Home before its first effect: every useState at its initial value.
Constructed ==
    /\ mounted = FALSE
    /\ heap = DefaultBankValues
    /\ banksState = initialBanks
    /\ editingBanks = initialBanks
    /\ lastUpdateTime = NullString
    /\ showRateEditor = FALSE
    /\ banksArray = DefaultBanksArray
    /\ editingArray = DefaultBanksArray
    /\ result = calculateExchange(initialInput, DefaultBankValues)
    /\ copiedIndex = <<>>
    /\ timers = <<>>
    /\ clipboard = <<>>
    /\ copies = 0
    /\ copiedBy = 0

Call(in, bs) ==
    LET bankComparisons == mapBanks(in, bs)
        writes == flagWrites(bankComparisons)
    IN  [input |-> in,
         banks |-> bs,
         result |-> calculateExchange(in, bs),
         outcome |-> outcomeOf(bankComparisons),
         inputAfter |-> AfterWrites(<<"input", 0>>, in, writes),
         banksAfter |-> [i \in 1..Len(bs) |-> AfterWrites(<<"bank", i>>, bs[i], writes)]]

Record(c) == IF calls = <<>> THEN <<c>> ELSE <<c, calls[1]>>

Init ==
    /\ input \in CalculationInputs
    /\ banks \in BankLists
    /\ calls = <<>>
    /\ Constructed
    /\ localStorage = <<>>
    /\ edits = 0
    /\ lastSaved = <<>>

\* calculateExchange(input, banks)
Calculate ==
    /\ calls' = Record(Call(input, banks))
    /\ UNCHANGED <<input, banks, pageVars, copyVars>>

\* The caller changes the fee of one bank and calls again.
CalculateWithFee(i, fee) ==
    /\ i \in 1..Len(banks)
    /\ banks[i].inFeeNtd # fee
    /\ banks' = [banks EXCEPT ![i].inFeeNtd = fee]
    /\ calls' = Record(Call(input, banks'))
    /\ UNCHANGED <<input, pageVars, copyVars>>

Next ==
    \/ Calculate
    \/ \E i \in 1..MaxBanks, fee \in InFees : CalculateWithFee(i, fee)

Spec == Init /\ [][Next]_vars

----------------------------------------------------------------------------
\* The page's operations.

\* An assignment that reaches the field of every object.
assignFieldOfAll(h, ref, field, v) == [r \in 1..Len(h) |-> [h[r] EXCEPT ![field] = v]]

\* object[field] = v, object being the one that ref refers to.
assignField(h, ref, field, v) == [h EXCEPT ![ref][field] = v]

\* An exception leaving the try statement of the effect, there being no
\* catch clause.
escapesTryUncaught(text) == ParseThrows(text)

\* An exception leaving the try statement of the effect: "catch (e)" catches
\* every one.
escapesTry(text) == FALSE

\* The stores the page may find when it is first opened: nothing saved, or
\* a bank list that is not JSON, each with or without a timestamp.
ForeignStores ==
    { <<>>,
      setItem(<<>>, TIMESTAMP_KEY, "t0"),
      setItem(<<>>, STORAGE_KEY, InvalidJson),
      setItem(setItem(<<>>, STORAGE_KEY, InvalidJson), TIMESTAMP_KEY, "t0") }

PageInit ==
    /\ Constructed
    /\ input = initialInput
    /\ localStorage \in ForeignStores
    /\ edits = 0
    /\ lastSaved = <<>>
    /\ banks = <<>>
    /\ calls = <<>>

\* The render that follows a handler or an effect that has set a state.
Render ==
    result' = useMemo(result, input, input', banksArray, banksArray',
                      Values(heap', banksState'))

\* useEffect(..., []): load banks and timestamp from localStorage on mount.
LoadOnMount ==
    /\ ~mounted
    /\ mounted' = TRUE
    /\ LET savedBanks == getItemPresent(localStorage, STORAGE_KEY)
           savedTimestamp == getItemPresent(localStorage, TIMESTAMP_KEY)
           parsed == savedBanks /\ ~ParseThrows(localStorage[STORAGE_KEY])
           parsedBanks == JSONparse(localStorage[STORAGE_KEY])
           newRefs == [i \in 1..Len(parsedBanks) |-> Len(heap) + i]
           aborted == savedBanks /\ escapesTry(localStorage[STORAGE_KEY])
       IN  /\ IF parsed
              THEN /\ heap' = heap \o parsedBanks
                   /\ banksState' = newRefs
                   /\ editingBanks' = newRefs
                   /\ banksArray' = newArray({banksArray, editingArray})
                   /\ editingArray' = banksArray'
              ELSE UNCHANGED <<heap, banksState, editingBanks, banksArray, editingArray>>
           /\ IF savedTimestamp /\ ~aborted
              THEN lastUpdateTime' = localStorage[TIMESTAMP_KEY]
              ELSE UNCHANGED lastUpdateTime
    /\ UNCHANGED <<input, showRateEditor, localStorage, edits, lastSaved, banks, calls, copyVars>>
    /\ Render

\* The browser loads the page again: a new Home and new DEFAULT_BANKS
\* objects; the store stays.
Reload ==
    /\ mounted
    /\ mounted' = FALSE
    /\ heap' = DefaultBankValues
    /\ banksState' = initialBanks
    /\ editingBanks' = initialBanks
    /\ lastUpdateTime' = NullString
    /\ showRateEditor' = FALSE
    /\ banksArray' = DefaultBanksArray
    /\ editingArray' = DefaultBanksArray
    /\ input' = initialInput
    /\ result' = calculateExchange(initialInput, DefaultBankValues)
    /\ UNCHANGED <<localStorage, edits, lastSaved, banks, calls, copyVars>>

\* onChange of a form field: setAudAmount(parseFloat(e.target.value) || 0)
\* and so on for audFeeNtd and audToUsdRate.
ChangeFormField(field, value) ==
    /\ mounted
    /\ edits < MaxEdits
    /\ edits' = edits + 1
    /\ input' = [input EXCEPT ![field] = InUnitOf(field, orZero(parseFloat(value)))]
    /\ UNCHANGED <<mounted, heap, banksState, editingBanks, lastUpdateTime,
                   showRateEditor, localStorage, lastSaved, banksArray, editingArray,
                   banks, calls, copyVars>>
    /\ Render

\* setShowRateEditor(!showRateEditor)
ToggleRateEditor ==
    /\ mounted
    /\ showRateEditor' = ~showRateEditor
    /\ UNCHANGED <<input, mounted, heap, banksState, editingBanks, lastUpdateTime,
                   localStorage, edits, lastSaved, banksArray, editingArray, banks, calls, copyVars>>
    /\ Render

\* handleEditBank(index, field, value): updated = [...editingBanks] has the
\* references of editingBanks, and the assignment writes the object that
\* updated[index] refers to.
handleEditBank(index, field, value) ==
    /\ mounted
    /\ showRateEditor
    /\ index \in 1..Len(editingBanks)
    /\ edits < MaxEdits
    /\ edits' = edits + 1
    /\ LET updated == editingBanks
       IN  /\ heap' = assignField(heap, updated[index], field,
                                  IF field = "name" THEN value
                                  ELSE InUnitOf(field, orZero(parseFloat(value))))
           /\ editingBanks' = updated
           /\ editingArray' = newArray({banksArray, editingArray})
    /\ UNCHANGED <<input, mounted, banksState, lastUpdateTime, showRateEditor,
                   localStorage, lastSaved, banksArray, banks, calls, copyVars>>
    /\ Render

\* handleUpdateRates(), timeString being what the clock gives.
handleUpdateRates(timeString) ==
    /\ mounted
    /\ showRateEditor
    /\ banksState' = editingBanks
    /\ banksArray' = editingArray
    /\ lastUpdateTime' = timeString
    /\ localStorage' = setItem(setItem(localStorage, STORAGE_KEY,
                                       JSONstringify(Values(heap, editingBanks))),
                               TIMESTAMP_KEY, timeString)
    /\ showRateEditor' = FALSE
    /\ lastSaved' = <<[banks |-> Values(heap, editingBanks), time |-> timeString]>>
    /\ UNCHANGED <<input, mounted, heap, editingBanks, editingArray, edits, banks, calls, copyVars>>
    /\ Render

\* handleResetRates()
handleResetRates ==
    /\ mounted
    /\ showRateEditor
    /\ editingBanks' = DEFAULT_BANKS
    /\ editingArray' = DefaultBanksArray
    /\ banksState' = DEFAULT_BANKS
    /\ banksArray' = DefaultBanksArray
    /\ localStorage' = removeItem(removeItem(localStorage, STORAGE_KEY), TIMESTAMP_KEY)
    /\ lastUpdateTime' = NullString
    /\ showRateEditor' = FALSE
    /\ lastSaved' = <<>>
    /\ UNCHANGED <<input, mounted, heap, edits, banks, calls, copyVars>>
    /\ Render

PageNext ==
    \/ LoadOnMount
    \/ Reload
    \/ \E field \in {"audAmount", "audFeeNtd", "audToUsdRate"}, value \in Texts :
           ChangeFormField(field, value)
    \/ ToggleRateEditor
    \/ \E index \in EditIndexes, field \in BankFields, value \in Texts :
           handleEditBank(index, field, value)
    \/ \E timeString \in TimeStrings : handleUpdateRates(timeString)
    \/ handleResetRates

PageSpec == PageInit /\ [][PageNext]_vars

----------------------------------------------------------------------------
\* The copy buttons of the result table.

\* Most calls of handleCopy in a run.
MaxCopies == 4

\* The rows of the result table the model lets the user copy from.
CopyRows == {0, 1, 2}

\* The decimal digits of a natural number.
RECURSIVE NatToString(_)
NatToString(n) ==
    IF n < Len(Digits) THEN <<Digits[n + 1]>>
    ELSE NatToString(n \div Len(Digits)) \o <<Digits[(n % Len(Digits)) + 1]>>

\* amount.toString(), amount being a number of at most two decimals given
\* in cents: no trailing zeros, no decimal point for a whole number.
toString(amount) ==
    LET magnitude == IF amount < 0 THEN -amount ELSE amount
        tenths == (magnitude % Cents) \div Len(Digits)
        hundredths == magnitude % Len(Digits)
    IN  (IF amount < 0 THEN <<"-">> ELSE <<>>)
        \o NatToString(magnitude \div Cents)
        \o (IF magnitude % Cents = 0 THEN <<>> ELSE <<".", Digits[tenths + 1]>>)
        \o (IF hundredths = 0 THEN <<>> ELSE <<Digits[hundredths + 1]>>)

\* handleCopy(text, index)
handleCopy(text, index) ==
    /\ copies < MaxCopies
    /\ copies' = copies + 1
    /\ clipboard' = <<text>>
    /\ copiedIndex' = <<index>>
    /\ copiedBy' = copies'
    /\ timers' = Append(timers, copies')
    /\ UNCHANGED <<input, banks, calls, pageVars>>

\* onClick of the button of the intermediary-path total of a row.
CopyUsdToTwdAmount(idx) ==
    /\ idx < Len(result.bankComparisons)
    /\ handleCopy(toString(result.bankComparisons[idx + 1].usdToTwdAmount), idx * 2)

\* onClick of the button of the direct-path total of a row.
CopyAudToTwdAmount(idx) ==
    /\ idx < Len(result.bankComparisons)
    /\ handleCopy(toString(result.bankComparisons[idx + 1].audToTwdAmount), idx * 2 + 1)

\* The oldest pending timeout runs () => setCopiedIndex(null).  All the
\* timeouts have the same delay, so they run in the order they were set.
TimerFires ==
    /\ timers # <<>>
    /\ timers' = Tail(timers)
    /\ copiedIndex' = <<>>
    /\ copiedBy' = 0
    /\ UNCHANGED <<input, banks, calls, pageVars, clipboard, copies>>

CopyInit == PageInit /\ localStorage = <<>>

CopyNext ==
    \/ \E idx \in CopyRows : CopyUsdToTwdAmount(idx)
    \/ \E idx \in CopyRows : CopyAudToTwdAmount(idx)
    \/ TimerFires

CopySpec == CopyInit /\ [][CopyNext]_vars

----------------------------------------------------------------------------
\* Properties of calculateExchange, stated of every call recorded in calls.

CallIds == 1..Len(calls)

Comparisons(k) == calls[k].result.bankComparisons

BestIds(k) == { i \in 1..Len(Comparisons(k)) : Comparisons(k)[i].isBest }

WorstIds(k) == { i \in 1..Len(Comparisons(k)) : Comparisons(k)[i].isWorst }

\* The input and the bank of the end-to-end example: amount 2000, fee 8,
\* rate 0.6545; intermediary rate 31.553, direct rate 21.883, fee 0.
ExampleInput == [audAmount |-> 2000, audFeeNtd |-> 8, audToUsdRate |-> 6545]

ExampleBank == [name |-> "A", usdToTwdRate |-> 315530, audToTwdRate |-> 218830, inFeeNtd |-> 0]

\* C1: for a non-empty bank list, exactly one entry of bankComparisons has
\* isBest = true and exactly one has isWorst = true.
C1_ExactlyOneBestOneWorst ==
    \A k \in CallIds :
        calls[k].banks # <<>> =>
            /\ Cardinality(BestIds(k)) = 1
            /\ Cardinality(WorstIds(k)) = 1

\* C1 witness: a call whose list has two entries sharing the maximum total
\* and two sharing the minimum one.
C1_Witness ==
    \E k \in CallIds :
        \E i, j \in 1..Len(Comparisons(k)) :
            /\ i # j
            /\ Comparisons(k)[i].audToTwdAmount = Comparisons(k)[j].audToTwdAmount
            /\ \A m \in 1..Len(Comparisons(k)) :
                   Comparisons(k)[m].audToTwdAmount = Comparisons(k)[i].audToTwdAmount

\* C2: for an empty bank list the result has bankComparisons = [],
\* bestBank = null and worstBank = null.
C2_EmptyBankList ==
    \A k \in CallIds :
        calls[k].banks = <<>> =>
            /\ Comparisons(k) = <<>>
            /\ calls[k].result.bestBank = Null
            /\ calls[k].result.worstBank = Null

\* C2 witness: a call with an empty bank list.
C2_Witness ==
    \E k \in CallIds : calls[k].banks = <<>>

\* C3: bankComparisons has the length of the bank list and entry i is the
\* comparison computed from banks[i]: it carries that bank's name, rates and
\* fee and the totals and difference computed from them.
C3_SameLengthSameOrder ==
    \A k \in CallIds :
        /\ Len(Comparisons(k)) = Len(calls[k].banks)
        /\ \A i \in 1..Len(calls[k].banks) :
               LET b == calls[k].banks[i]
                   c == Comparisons(k)[i]
                   audNet == audNetAmountOf(calls[k].input)
                   usdNet == usdNetAmountOf(calls[k].input)
               IN  /\ c.bankName = b.name
                   /\ c.usdToTwdRate = b.usdToTwdRate
                   /\ c.audToTwdRate = b.audToTwdRate
                   /\ c.inFeeNtd = b.inFeeNtd
                   /\ c.usdToTwdAmount = Round2(usdToTwdAmountOf(b, usdNet))
                   /\ c.audToTwdAmount = Round2(audToTwdAmountOf(b, audNet))
                   /\ c.difference = Round2(differenceOf(b, audNet, usdNet))

\* C3 witness: a call with at least two banks, the first and the last of
\* which differ in name, and with the best entry not the first.
C3_Witness ==
    \E k \in CallIds :
        /\ Len(calls[k].banks) >= 2
        /\ calls[k].banks[1].name # calls[k].banks[Len(calls[k].banks)].name
        /\ ~Comparisons(k)[1].isBest

\* C4: the entry flagged isBest is the one at the smallest index whose
\* audToTwdAmount is the maximum over all entries.
C4_BestIsFirstMaximum ==
    \A k \in CallIds :
        \A i \in BestIds(k) :
            /\ \A j \in 1..Len(Comparisons(k)) :
                   Comparisons(k)[j].audToTwdAmount <= Comparisons(k)[i].audToTwdAmount
            /\ \A j \in 1..(i - 1) :
                   Comparisons(k)[j].audToTwdAmount < Comparisons(k)[i].audToTwdAmount

\* C4 witness: the maximum total occurs twice, at a flagged entry that is not
\* the first of the list and again later.
C4_Witness ==
    \E k \in CallIds :
        \E i \in BestIds(k) :
            /\ i > 1
            /\ \E j \in (i + 1)..Len(Comparisons(k)) :
                   Comparisons(k)[j].audToTwdAmount = Comparisons(k)[i].audToTwdAmount

\* C5: the entry flagged isWorst is the one at the smallest index whose
\* audToTwdAmount is the minimum over all entries.
C5_WorstIsFirstMinimum ==
    \A k \in CallIds :
        \A i \in WorstIds(k) :
            /\ \A j \in 1..Len(Comparisons(k)) :
                   Comparisons(k)[j].audToTwdAmount >= Comparisons(k)[i].audToTwdAmount
            /\ \A j \in 1..(i - 1) :
                   Comparisons(k)[j].audToTwdAmount > Comparisons(k)[i].audToTwdAmount

\* C5 witness: the minimum total occurs twice, at a flagged entry that is not
\* the first of the list and again later.
C5_Witness ==
    \E k \in CallIds :
        \E i \in WorstIds(k) :
            /\ i > 1
            /\ \E j \in (i + 1)..Len(Comparisons(k)) :
                   Comparisons(k)[j].audToTwdAmount = Comparisons(k)[i].audToTwdAmount

\* C6: every monetary output equals its raw value rounded to 2 decimals with
\* halves rounded away from zero, for positive and negative raw values.
C6_RoundHalfAwayFromZero ==
    \A k \in CallIds :
        LET in == calls[k].input
            r == calls[k].result
            audNet == audNetAmountOf(in)
            usdNet == usdNetAmountOf(in)
        IN  /\ r.audNetAmount = RoundHalfAwayFromZero(audNet)
            /\ r.usdAmount = RoundHalfAwayFromZero(usdAmountOf(in))
            /\ r.usdFeeNtd = RoundHalfAwayFromZero(usdFeeNtdOf(in))
            /\ r.usdNetAmount = RoundHalfAwayFromZero(usdNet)
            /\ \A i \in 1..Len(calls[k].banks) :
                   LET b == calls[k].banks[i]
                       c == r.bankComparisons[i]
                   IN  /\ c.usdToTwdAmount = RoundHalfAwayFromZero(usdToTwdAmountOf(b, usdNet))
                       /\ c.audToTwdAmount = RoundHalfAwayFromZero(audToTwdAmountOf(b, audNet))
                       /\ c.difference = RoundHalfAwayFromZero(differenceOf(b, audNet, usdNet))

\* C7 as claimed: for amount 2000, fee 8 and rate 0.6545 the net source
\* amount is 1992 and the intermediary amount before rounding is 1304.364.
C7_Claimed ==
    \A k \in CallIds :
        calls[k].input = ExampleInput =>
            /\ calls[k].result.audNetAmount = 1992 * Cents
            /\ usdAmountOf(calls[k].input) = <<1304, 36400000>>

\* C7 as amended: for amount 2000, fee 8 and rate 0.6545 the net source
\* amount is 1992 and the intermediary amount before rounding is 1303.764
\* (returned as usdAmount = 1303.76).
C7_ExampleIntermediaryAmount ==
    \A k \in CallIds :
        calls[k].input = ExampleInput =>
            /\ calls[k].result.audNetAmount = 1992 * Cents
            /\ usdAmountOf(calls[k].input) = <<1303, 76400000>>
            /\ calls[k].result.usdAmount = 130376

\* C7 witness: a call with the input of the example.
C7_Witness ==
    \E k \in CallIds : calls[k].input = ExampleInput

\* C8 as claimed: for the input of the example and the single bank of the
\* example the returned audToTwdAmount is 43591.84.
C8_Claimed ==
    \A k \in CallIds :
        (calls[k].input = ExampleInput /\ calls[k].banks = <<ExampleBank>>) =>
            Comparisons(k)[1].audToTwdAmount = 4359184

\* C8 as amended: for the input of the example and the single bank of the
\* example the returned audToTwdAmount is 43590.94 (1992 x 21.883 =
\* 43590.936).
C8_ExampleDirectPathTotal ==
    \A k \in CallIds :
        (calls[k].input = ExampleInput /\ calls[k].banks = <<ExampleBank>>) =>
            /\ audToTwdAmountOf(ExampleBank, audNetAmountOf(ExampleInput)) = <<43590, 93600000>>
            /\ Comparisons(k)[1].audToTwdAmount = 4359094

\* C8 witness: a call with the input and the single bank of the example.
C8_Witness ==
    \E k \in CallIds :
        calls[k].input = ExampleInput /\ calls[k].banks = <<ExampleBank>>

\* The bank lists bs and cs differ at most in the fee of the bank at index i.
SameButFee(bs, cs, i) ==
    /\ Len(bs) = Len(cs)
    /\ i \in 1..Len(bs)
    /\ \A j \in 1..Len(bs) :
           IF j = i THEN [bs[j] EXCEPT !.inFeeNtd = cs[j].inFeeNtd] = cs[j]
                    ELSE bs[j] = cs[j]

\* C9: two calls with the same input record and bank lists that differ only
\* in the fee of the bank at index i return, for every other index j, the
\* same usdToTwdAmount, audToTwdAmount and difference.
C9_FeeChangesOnlyItsBank ==
    \A k, l \in CallIds :
        \A i \in 1..Len(calls[k].banks) :
            (calls[k].input = calls[l].input /\ SameButFee(calls[k].banks, calls[l].banks, i)) =>
                \A j \in 1..Len(calls[k].banks) :
                    j # i =>
                        /\ Comparisons(k)[j].usdToTwdAmount = Comparisons(l)[j].usdToTwdAmount
                        /\ Comparisons(k)[j].audToTwdAmount = Comparisons(l)[j].audToTwdAmount
                        /\ Comparisons(k)[j].difference = Comparisons(l)[j].difference

\* C9 witness: two calls whose bank lists differ in the fee of the first of
\* at least two banks, and in that fee only; the two totals of that bank
\* differ between the two results.
C9_Witness ==
    /\ Len(calls) = 2
    /\ calls[1].input = calls[2].input
    /\ Len(calls[1].banks) >= 2
    /\ SameButFee(calls[1].banks, calls[2].banks, 1)
    /\ calls[1].banks[1].inFeeNtd # calls[2].banks[1].inFeeNtd
    /\ Comparisons(1)[1].usdToTwdAmount # Comparisons(2)[1].usdToTwdAmount
    /\ Comparisons(1)[1].audToTwdAmount # Comparisons(2)[1].audToTwdAmount

\* C11: a call leaves its arguments unchanged: the input record and every
\* record of the bank list have the same fields and values after the call,
\* and the flags are written on objects created by the call only.
C11_ArgumentsUnchanged ==
    \A k \in CallIds :
        /\ calls[k].inputAfter = calls[k].input
        /\ calls[k].banksAfter = calls[k].banks
        /\ \A w \in flagWrites(mapBanks(calls[k].input, calls[k].banks)) :
               w.object[1] = "comparison"

\* C11 witness: a call on a non-empty list, which writes both flags.
C11_Witness ==
    \E k \in CallIds :
        /\ calls[k].banks # <<>>
        /\ BestIds(k) # {}
        /\ WorstIds(k) # {}

C13_Claimed ==
    \A k \in CallIds :
        \A i \in 1..Len(Comparisons(k)) :
            Comparisons(k)[i].difference =
                Comparisons(k)[i].usdToTwdAmount - Comparisons(k)[i].audToTwdAmount

\* C13 as amended: in every returned entry, difference is the rounding of
\* the unrounded intermediary-path total minus the unrounded direct-path
\* total; it is within 0.01 of the returned usdToTwdAmount minus the
\* returned audToTwdAmount.
C13_DifferenceOfRawTotals ==
    \A k \in CallIds :
        \A i \in 1..Len(Comparisons(k)) :
            LET b == calls[k].banks[i]
                c == Comparisons(k)[i]
                usdNet == usdNetAmountOf(calls[k].input)
                audNet == audNetAmountOf(calls[k].input)
            IN  /\ c.difference =
                       Round2(Sub(usdToTwdAmountOf(b, usdNet), audToTwdAmountOf(b, audNet)))
                /\ c.difference - (c.usdToTwdAmount - c.audToTwdAmount) \in {-1, 0, 1}

\* C13 witness: an entry whose difference is not the difference of its two
\* returned totals.
C13_Witness ==
    \E k \in CallIds :
        \E i \in 1..Len(Comparisons(k)) :
            Comparisons(k)[i].difference #
                Comparisons(k)[i].usdToTwdAmount - Comparisons(k)[i].audToTwdAmount

C15_BestBankIsFlaggedEntry ==
    \A k \in CallIds :
        calls[k].banks # <<>> =>
            /\ \E i \in BestIds(k) : calls[k].result.bestBank = Comparisons(k)[i]
            /\ \E i \in WorstIds(k) : calls[k].result.worstBank = Comparisons(k)[i]
            /\ calls[k].result.bestBank.isBest
            /\ calls[k].result.worstBank.isWorst

\* C15 witness: a call in which neither the best nor the worst entry is the
\* first of the list.
C15_Witness ==
    \E k \in CallIds :
        /\ calls[k].banks # <<>>
        /\ 1 \notin BestIds(k)
        /\ 1 \notin WorstIds(k)

----------------------------------------------------------------------------
\* More properties of calculateExchange.

\* C23: usdFeeNtd is the rounding of audFeeNtd x audToUsdRate, and
\* usdNetAmount the rounding of the unrounded usdAmount minus the unrounded
\* fee.
C23_UsdFeeAndNetAmount ==
    \A k \in CallIds :
        LET in == calls[k].input
            rate == Rate(in.audToUsdRate)
            usdAmountRaw == Mul(Sub(Num(in.audAmount), Num(in.audFeeNtd)), rate)
            usdFeeRaw == Mul(Num(in.audFeeNtd), rate)
        IN  /\ calls[k].result.usdFeeNtd = Round2(usdFeeRaw)
            /\ calls[k].result.usdNetAmount = Round2(Sub(usdAmountRaw, usdFeeRaw))

\* C23 witness: a call whose fee in USD has more than two decimals and is
\* not the fee in AUD, and whose net amount is not the rounded amount less
\* the rounded fee.
C23_Witness ==
    \E k \in CallIds :
        /\ usdFeeNtdOf(calls[k].input)[2] % (FracBase \div Cents) # 0
        /\ calls[k].result.usdFeeNtd # calls[k].input.audFeeNtd * Cents
        /\ calls[k].result.usdNetAmount #
               calls[k].result.usdAmount - calls[k].result.usdFeeNtd

\* C24: for each bank, usdToTwdAmount is the rounding of the unrounded net
\* USD amount x usdToTwdRate + inFeeNtd and audToTwdAmount the rounding of
\* the unrounded net AUD amount x audToTwdRate + inFeeNtd: one fee, added on
\* both paths.
C24_TotalsFromUnroundedNet ==
    \A k \in CallIds :
        LET in == calls[k].input
            audNetRaw == Sub(Num(in.audAmount), Num(in.audFeeNtd))
            usdNetRaw == Sub(Mul(audNetRaw, Rate(in.audToUsdRate)),
                             Mul(Num(in.audFeeNtd), Rate(in.audToUsdRate)))
        IN  \A i \in 1..Len(calls[k].banks) :
                LET bank == calls[k].banks[i]
                IN  /\ Comparisons(k)[i].usdToTwdAmount =
                           Round2(Add(Mul(usdNetRaw, Rate(bank.usdToTwdRate)), Num(bank.inFeeNtd)))
                    /\ Comparisons(k)[i].audToTwdAmount =
                           Round2(Add(Mul(audNetRaw, Rate(bank.audToTwdRate)), Num(bank.inFeeNtd)))

\* C24 witness: a call with a bank that charges a fee, for which converting
\* the rounded net USD amount would give another total.
C24_Witness ==
    \E k \in CallIds :
        \E i \in 1..Len(calls[k].banks) :
            /\ calls[k].banks[i].inFeeNtd > 0
            /\ Comparisons(k)[i].usdToTwdAmount #
                   Round2(usdToTwdAmountOfRounded(calls[k].banks[i],
                                                  usdNetAmountOf(calls[k].input)))

TotalsDiffer(k) ==
    \E i, j \in 1..Len(Comparisons(k)) :
        Comparisons(k)[i].audToTwdAmount # Comparisons(k)[j].audToTwdAmount

\* C28: when two entries have different returned direct-path totals, the
\* entry flagged best and the entry flagged worst are different entries and
\* the best one's total is the greater; when all the totals are equal, the
\* first entry carries both flags.
C28_BestAndWorstDiffer ==
    \A k \in CallIds :
        calls[k].banks # <<>> =>
            IF TotalsDiffer(k)
            THEN \A b \in BestIds(k), w \in WorstIds(k) :
                    /\ b # w
                    /\ Comparisons(k)[b].audToTwdAmount > Comparisons(k)[w].audToTwdAmount
                    /\ ~Comparisons(k)[b].isWorst
                    /\ ~Comparisons(k)[w].isBest
            ELSE /\ BestIds(k) = {1}
                 /\ WorstIds(k) = {1}

\* C28 witness: the last two calls, one on a list of several banks whose
\* totals differ, one on a list of several banks with one total.
C28_Witness ==
    /\ Len(calls) = 2
    /\ Len(calls[1].banks) > 1
    /\ Len(calls[2].banks) > 1
    /\ TotalsDiffer(1)
    /\ ~TotalsDiffer(2)

----------------------------------------------------------------------------
\* Properties of the page, stated of the behaviours of PageSpec.

\* The step of the effect that runs on mount.
LoadStep == ~mounted /\ mounted'

\* The bank list that Home passes to calculateExchange.
banksForCalculation == Values(heap, banksState)

\* C16: when localStorage holds nothing under the bank-list key at mount,
\* the bank list used for calculation after the load step is the default
\* bank list.
C16_LoadWithoutSavedBanks ==
    [][(LoadStep /\ ~getItemPresent(localStorage, STORAGE_KEY))
          => banksForCalculation' = DefaultBankValues]_vars

\* The page has loaded from a store without a saved bank list, nothing has
\* been typed, and it calculates with the defaults.
C16_Witness ==
    /\ mounted
    /\ ~getItemPresent(localStorage, STORAGE_KEY)
    /\ lastSaved = <<>>
    /\ edits = 0
    /\ banksForCalculation = DefaultBankValues

\* The store holds, under the bank-list key, a text that is not JSON.
savedBanksInvalid ==
    /\ getItemPresent(localStorage, STORAGE_KEY)
    /\ ParseThrows(localStorage[STORAGE_KEY])

\* C17: on a load with a saved bank list that is not valid JSON the
\* exception does not leave the effect, banks and editingBanks keep their
\* default values, and a saved timestamp is still loaded.
C17_LoadWithInvalidJson ==
    [][(LoadStep /\ savedBanksInvalid)
          => /\ ~escapesTry(localStorage[STORAGE_KEY])
             /\ banksState' = banksState
             /\ editingBanks' = editingBanks
             /\ banksForCalculation' = DefaultBankValues
             /\ Values(heap', editingBanks') = DefaultBankValues
             /\ getItemPresent(localStorage, TIMESTAMP_KEY)
                   => lastUpdateTime' = localStorage[TIMESTAMP_KEY]]_vars

\* The page has loaded from a store with an invalid bank list and a
\* timestamp: it shows the timestamp and calculates with the defaults.
C17_Witness ==
    /\ mounted
    /\ savedBanksInvalid
    /\ getItemPresent(localStorage, TIMESTAMP_KEY)
    /\ lastUpdateTime = localStorage[TIMESTAMP_KEY]
    /\ edits = 0
    /\ banksForCalculation = DefaultBankValues

\* No numeric field of the form or of a bank object holds NaN.
NumericFieldsHoldNumbers ==
    /\ \A field \in DOMAIN input : input[field] # NaN
    /\ \A ref \in 1..Len(heap) : \A field \in NumericFields : heap[ref][field] # NaN

\* A text entry that parseFloat cannot read sets its field to 0.
UnparsableEntrySetsZero ==
    \A value \in Texts :
        parseFloat(value) = NaN =>
            /\ \A field \in DOMAIN input :
                   ChangeFormField(field, value) => input'[field] = 0
            /\ \A index \in EditIndexes, field \in NumericFields :
                   handleEditBank(index, field, value)
                       => heap'[editingBanks[index]][field] = 0

\* C18: a numeric form field or numeric bank field is set to 0 when the
\* text entered cannot be parsed as a number, and after any sequence of text
\* entries these fields hold a number, never NaN.
C18_UnparsableTextGivesZero ==
    [][UnparsableEntrySetsZero]_vars /\ []NumericFieldsHoldNumbers

\* Unparsable text has been entered in a numeric field of the rate editor,
\* which holds 0, the form being as it was.
C18_Witness ==
    /\ edits > 0
    /\ input = initialInput
    /\ \E index \in EditIndexes : heap[editingBanks[index]].inFeeNtd = 0

\* The store holds what the last handleUpdateRates saved: under the
\* bank-list key a JSON text that denotes the working set E of that call,
\* under the timestamp key the time of the call.
StoreHoldsLastSaved ==
    lastSaved # <<>> =>
        /\ getItemPresent(localStorage, STORAGE_KEY)
        /\ localStorage[STORAGE_KEY] = JSONstringify(lastSaved[1].banks)
        /\ ~ParseThrows(localStorage[STORAGE_KEY])
        /\ JSONparse(localStorage[STORAGE_KEY]) = lastSaved[1].banks
        /\ getItemPresent(localStorage, TIMESTAMP_KEY)
        /\ localStorage[TIMESTAMP_KEY] = lastSaved[1].time

\* A mount that follows a save gives banks and editingBanks the values of E
\* and lastUpdateTime the saved time.
LoadRestoresLastSaved ==
    (LoadStep /\ lastSaved # <<>>) =>
        /\ banksForCalculation' = lastSaved[1].banks
        /\ Values(heap', editingBanks') = lastSaved[1].banks
        /\ lastUpdateTime' = lastSaved[1].time

\* C19: after handleUpdateRates with working set E the store holds the JSON
\* serialization of E and the update time, and a following mount sets banks
\* and editingBanks to a list equal to E and lastUpdateTime to the saved
\* time.
C19_SaveLoadRoundTrip ==
    []StoreHoldsLastSaved /\ [][LoadRestoresLastSaved]_vars

\* The page has been loaded again after a save of edited banks: it holds new
\* objects with the saved values, which are not the defaults.
C19_Witness ==
    /\ mounted
    /\ lastSaved # <<>>
    /\ Len(heap) > Len(DefaultBankValues)
    /\ banksForCalculation = lastSaved[1].banks
    /\ Values(heap, editingBanks) = lastSaved[1].banks
    /\ banksForCalculation # DefaultBankValues
    /\ lastUpdateTime = lastSaved[1].time

\* A step of handleEditBank.
EditStep ==
    \E index \in EditIndexes, field \in BankFields, value \in Texts :
        handleEditBank(index, field, value)

\* C20: handleEditBank changes editingBanks only: the field values of banks,
\* the list passed to calculateExchange, and of DEFAULT_BANKS are after the
\* call what they were before it.  (The code writes through the references
\* that editingBanks shares with banks and DEFAULT_BANKS, so this fails.)
C20_EditLeavesBanksAndDefaults ==
    [][EditStep => /\ banksForCalculation' = banksForCalculation
                   /\ Values(heap', DEFAULT_BANKS) = Values(heap, DEFAULT_BANKS)]_vars

\* C21: after handleResetRates, whatever came before it, banks and
\* editingBanks have the values DEFAULT_BANKS was defined with, the two keys
\* are gone from the store, lastUpdateTime is null and the rate editor is
\* closed.  (handleEditBank may have written the objects of DEFAULT_BANKS,
\* and the reset hands out those objects, so this fails.)
C21_ResetRestoresDefaults ==
    [][handleResetRates
          => /\ banksForCalculation' = DefaultBankValues
             /\ Values(heap', editingBanks') = DefaultBankValues
             /\ ~getItemPresent(localStorage', STORAGE_KEY)
             /\ ~getItemPresent(localStorage', TIMESTAMP_KEY)
             /\ lastUpdateTime' = NullString
             /\ ~showRateEditor']_vars

\* The values of the working set after bank index has had field set to v.
WithField(list, index, field, v) == [list EXCEPT ![index][field] = v]

\* C25: handleEditBank(index, field, value) changes, in the editing working
\* set, the named field of the bank at index and nothing else: the other
\* fields of that bank and all fields of the other banks are unchanged, and
\* the working set keeps its length and order.
C25_EditChangesOneField ==
    [][\A index \in EditIndexes, field \in BankFields, value \in Texts :
          handleEditBank(index, field, value)
              => LET before == Values(heap, editingBanks)
                     after == Values(heap', editingBanks')
                 IN  /\ Len(after) = Len(before)
                     /\ after = WithField(before, index, field, after[index][field])
                     /\ \A i \in 1..Len(before) :
                            \A f \in BankFields :
                                (i # index \/ f # field) => after[i][f] = before[i][f]]_vars

\* The second bank of the working set has been edited, and in one field
\* only: its name is not a default one, its numbers and the first bank are
\* the default ones.
C25_Witness ==
    /\ edits = 1
    /\ heap[editingBanks[2]].name = <<"7", "x">>
    /\ WithField(Values(heap, editingBanks), 2, "name", DefaultBankValues[2].name)
           = DefaultBankValues

\* The text is the JSON serialization of a bank list: an array of objects
\* with the four fields of BankRate.
IsBankListJson(text) ==
    /\ ~ParseThrows(text)
    /\ text.json = "array"
    /\ \A i \in 1..Len(text.items) : DOMAIN text.items[i] = BankFields
    /\ text = JSONstringify(JSONparse(text))

\* The two keys are present together or absent together, and what the
\* bank-list key holds is the serialization of a bank list.
StoreConsistent ==
    /\ getItemPresent(localStorage, STORAGE_KEY) <=> getItemPresent(localStorage, TIMESTAMP_KEY)
    /\ getItemPresent(localStorage, STORAGE_KEY) => IsBankListJson(localStorage[STORAGE_KEY])

\* The effect takes the branch of the catch clause.
ParseFailureStep == LoadStep /\ savedBanksInvalid

\* C29: starting from an empty store, whatever the page does, the store
\* holds a value under the bank-list key exactly when it holds one under
\* the timestamp key, that value is the JSON serialization of a bank list,
\* and no load takes the parse-failure path.  Stated inductively: the empty
\* store is consistent, no step of the page makes a consistent store
\* inconsistent, and no load from a consistent store fails to parse.
C29_StoreStaysConsistent ==
    /\ [](localStorage = <<>> => StoreConsistent)
    /\ [][StoreConsistent => (StoreConsistent' /\ ~ParseFailureStep)]_vars

\* The page has been loaded, with the rate editor's values restored, from a
\* store that a save of its own wrote.
C29_Witness ==
    /\ mounted
    /\ StoreConsistent
    /\ getItemPresent(localStorage, STORAGE_KEY)
    /\ localStorage[TIMESTAMP_KEY] = "t2"
    /\ lastUpdateTime = "t2"
    /\ Len(heap) > Len(DefaultBankValues)
    /\ banksForCalculation = JSONparse(localStorage[STORAGE_KEY])

\* C22: in every state of the page the displayed result is calculateExchange
\* of the current form input and the current bank list for calculation: it
\* is never stale.
C22_ResultNeverStale ==
    result = calculateExchange(input, banksForCalculation)

\* A rate typed in the rate editor and not saved: the banks the page
\* calculates with hold it, and the result displayed is computed from it.
C22_Witness ==
    /\ edits > 0
    /\ lastSaved = <<>>
    /\ input = initialInput
    /\ banksForCalculation[1].audToTwdRate # DefaultBankValues[1].audToTwdRate
    /\ result = calculateExchange(input, banksForCalculation)
    /\ result # calculateExchange(initialInput, DefaultBankValues)

----------------------------------------------------------------------------
\* Properties of the copy indicator, stated of the behaviours of CopySpec.

\* A timeout runs while the indicator shows what a later call has set.
ClearsLaterIndicator ==
    /\ TimerFires
    /\ copiedIndex # <<>>
    /\ copiedBy > Head(timers)

\* C30: handleCopy(text, i) sets copiedIndex to i and starts a timer that
\* sets it to null; the timer of one call never clears the indicator that a
\* later call has set; and once no timer is pending copiedIndex is null.
\* (No timeout is ever cancelled, so the timer of an earlier call does clear
\* a later indicator, and this fails.)
C30_TimerClearsOnlyItsOwnIndicator ==
    /\ [](timers = <<>> => copiedIndex = <<>>)
    /\ [][\A idx \in CopyRows :
              (CopyUsdToTwdAmount(idx) \/ CopyAudToTwdAmount(idx))
                  => /\ copiedIndex' \in {<<idx * 2>>, <<idx * 2 + 1>>}
                     /\ Len(timers') = Len(timers) + 1]_vars
    /\ [][~ClearsLaterIndicator]_vars

====
